---- MODULE Spec2Model ----
(***************************************************************************)
(* Model of the `kafka list` command, pkg/cmd/kafka/list/list.go:          *)
(* flag validation (the RunE closure of NewListCommand), runList, and the  *)
(* helpers getClusterIdMapFromKafkas, createSearchString, buildQuery and   *)
(* mapResponseItemsToRows.  One behaviour is one invocation of the         *)
(* command; the collaborators (connection, API clients, session state,     *)
(* renderers) are modelled by the outcomes they can report.                *)
(***************************************************************************)
EXTENDS Integers, Sequences, FiniteSets, TLC

VARIABLES
    opts,           \* the options struct: outputFormat, page, limit, search
    pc,             \* position of the invocation in RunE / runList
    a,              \* the request value `a` built at lines 120-128
    adapterErr,     \* err of http.NewNetHttpRequestAdapter (line 136)
    kafkas,         \* kiotaResponse.GetItems()
    clusterIdMap,   \* the map returned by getClusterIdMapFromKafkas
    currCtx,        \* KafkaID of the current context read from the session
    selected,       \* the selectedId argument of mapResponseItemsToRows
    rows,           \* result of mapResponseItemsToRows
    calls,          \* history: collaborator calls made, with their outcome
    kafkaReqs,      \* history: list-instances requests executed
    clusterReqs,    \* history: cluster lookup requests executed
    logs,           \* history: messages given to opts.f.Logger
    stdout,         \* history: fmt.Printf output
    rendered,       \* history: dump.Table / dump.Formatted output
    result          \* return value of the command

vars == <<opts, pc, a, adapterErr, kafkas, clusterIdMap, currCtx, selected,
          rows, calls,
          kafkaReqs, clusterReqs, logs, stdout, rendered, result>>

---------------------------------------------------------------------------
(* Bounds of the model *)

MaxPage == 2
MaxLimit == 2
MaxItems == 2
MaxClusters == 2

---------------------------------------------------------------------------
(* Values *)

\* a nil pointer (an absent optional field, an absent query parameter)
Nil == "<nil>"

\* a nil error
NoErr == "<no error>"

\* the command has not returned yet
Running == "<running>"

\* a run-time panic ended the process
Panic == "<panic>"

Range(s) == {s[i] : i \in 1..Len(s)}

SeqsUpTo(S, n) == UNION {[1..m -> S] : m \in 0..n}

\* models.KafkaRequestable: the fields the command reads
Kafka(id, name, owner, status, provider, region, cluster) ==
    [id |-> id, name |-> name, owner |-> owner, status |-> status,
     cloud_provider |-> provider, region |-> region, cluster_id |-> cluster]

\* instance records the instance-management API may return
KafkaUniverse ==
    { Kafka("k1", "alpha", "alice", "ready", "aws", "us-east-1", "c1"),
      Kafka("k2", "beta", "bob", "provisioning", "aws", "eu-west-1", "c1"),
      Kafka("k3", "gamma", "alice", "failed", "gcp", "us-east-1", Nil),
      Kafka("-", "delta", "bob", "ready", "aws", "us-east-1", "c2") }

\* a nil *v1.Cluster, the zero value a Go map yields for a missing key
NilCluster == [isNil |-> TRUE, id |-> "", name |-> ""]

\* *v1.Cluster objects the cluster-management API may return
ClusterUniverse ==
    { [isNil |-> FALSE, id |-> "c1", name |-> "prod-cluster"],
      [isNil |-> FALSE, id |-> "c2", name |-> "dev-cluster"] }

\* values of currCtx.KafkaID found in the session ("" = nothing selected)
KafkaIDs == {"", "k1", "k3"}

\* values of the --search flag
Searches == {"", "abc"}

\* values of the --output flag
OutputFormats == {"", "json", "xml"}

\* flagutil.ValidOutputFormats
ValidOutputFormats == {"json", "yaml", "yml"}

\* dump.EmptyFormat
EmptyFormat == ""

\* build.DefaultPageNumber after cmdutil.ConvertPageValueToInt32
DefaultPageNumber == 1

---------------------------------------------------------------------------
(* Pure functions *)

Digits == <<"0", "1", "2", "3", "4", "5", "6", "7", "8", "9">>

RECURSIVE ItoaNat(_)
ItoaNat(n) ==
    IF n < 10 THEN Digits[n + 1]
    ELSE ItoaNat(n \div 10) \o Digits[(n % 10) + 1]

\* strconv.Itoa
Itoa(n) == IF n < 0 THEN "-" \o ItoaNat(0 - n) ELSE ItoaNat(n)

\* flagutil.IsValidInput
IsValidInput(input, validValues) == input \in validValues

buildQuery(search) ==
    "name like %" \o search \o "% or owner like %" \o search
        \o "% or cloud_provider like %" \o search
        \o "% or region like %" \o search
        \o "% or status like %" \o search \o "%"

\* the iteration orders `for id := range *idSet` may take over a Go map
RangeOrders(idSet) ==
    {order \in [1..Cardinality(idSet) -> idSet] : Range(order) = idSet}

RECURSIVE createSearchStringLoop(_, _)
createSearchStringLoop(order, index) ==
    IF index >= Len(order) THEN ""
    ELSE (IF index > 0 THEN " or " ELSE "")
            \o "id = '" \o order[index + 1] \o "'"
            \o createSearchStringLoop(order, index + 1)

\* createSearchString, for the order in which the map is ranged over
createSearchString(order) == createSearchStringLoop(order, 0)

\* variant of kafkaClusterIdsOf: the GetClusterId() != nil test is missing
kafkaClusterIdsNoNilCheck(ks) == {ks[i].cluster_id : i \in 1..Len(ks)}

\* lines 230-236 of getClusterIdMapFromKafkas: the set kafkaClusterIds
kafkaClusterIdsOf(ks) ==
    {ks[i].cluster_id : i \in {j \in 1..Len(ks) : ks[j].cluster_id # Nil}}

\* variant of skipClusterLookup: the lookup is never skipped
skipClusterLookupNever(ids) == FALSE

\* line 242: no instance has a cluster id, the lookup is skipped
skipClusterLookup(ids) == Cardinality(ids) = 0

\* line 246: the page size asked of the cluster lookup
clusterLookupSize(ids) == Cardinality(ids)

RECURSIVE idToClusterLoop(_, _, _)
idToClusterLoop(slice, i, m) ==
    IF i > Len(slice) THEN m
    ELSE idToClusterLoop(slice, i + 1,
            [id \in DOMAIN m \cup {slice[i].id} |->
                IF id = slice[i].id THEN slice[i] ELSE m[id]])

\* lines 251-253: the index keyed by cluster.ID()
idToClusterOf(slice) == idToClusterLoop(slice, 1, <<>>)

\* Go map read: the zero value for a missing key
MapGet(m, key) == IF key \in DOMAIN m THEN m[key] ELSE NilCluster

\* (*v1.Cluster).Name and (*v1.Cluster).ID, which accept a nil receiver
ClusterName(cluster) == IF cluster.isNil THEN "" ELSE cluster.name
ClusterID(cluster) == IF cluster.isNil THEN "" ELSE cluster.id

\* opts.f.Localizer.MustLocalize: the catalog text of a message id
MustLocalize(id) == "[" \o id \o "]"

\* icon.Emoji: the emoji, or the fallback text where emoji are not shown
Emoji(emoji, fallback) == fallback

\* lines 199-202: the Name column
rowName(k, selectedId) ==
    IF k.id = selectedId
    THEN k.name \o " " \o Emoji("U+2714", "(current)")
    ELSE k.name

\* variant of rowOpenshiftCluster: an id missing from the index is shown
\* with the label of an instance that has no cluster
rowOpenshiftClusterHostedOnMiss(k, idMap) ==
    IF k.cluster_id # Nil /\ k.cluster_id \in DOMAIN idMap
    THEN ClusterName(MapGet(idMap, k.cluster_id)) \o " ("
            \o ClusterID(MapGet(idMap, k.cluster_id)) \o ")"
    ELSE MustLocalize("kafka.list.output.openshiftCluster.redhat")

\* lines 204-210: the Openshift Cluster column
rowOpenshiftCluster(k, idMap) ==
    IF k.cluster_id # Nil
    THEN ClusterName(MapGet(idMap, k.cluster_id)) \o " ("
            \o ClusterID(MapGet(idMap, k.cluster_id)) \o ")"
    ELSE MustLocalize("kafka.list.output.openshiftCluster.redhat")

\* lines 212-220: one kafkaRow
kafkaRow(k, selectedId, idMap) ==
    [ID |-> k.id,
     Name |-> rowName(k, selectedId),
     Owner |-> k.owner,
     Status |-> k.status,
     CloudProvider |-> k.cloud_provider,
     Region |-> k.region,
     OpenshiftCluster |-> rowOpenshiftCluster(k, idMap)]

\* variant of mapResponseItemsToRows: the rows are filled from the end
mapResponseItemsToRowsReversed(ks, selectedId, idMap) ==
    [i \in 1..Len(ks) |-> kafkaRow(ks[Len(ks) + 1 - i], selectedId, idMap)]

\* lines 194-226
mapResponseItemsToRows(ks, selectedId, idMap) ==
    [i \in 1..Len(ks) |-> kafkaRow(ks[i], selectedId, idMap)]

\* lines 181-185: the selectedId argument runList passes
selectedIdOf(kafkaID) == IF kafkaID # "" THEN kafkaID ELSE "-"

\* variant of noKafkaInstances: the output format is not looked at
noKafkaInstancesAnyFormat(items, outputFormat) == Len(items) = 0

\* line 158: the "no instances" short-circuit
noKafkaInstances(items, outputFormat) ==
    Len(items) = 0 /\ outputFormat = ""

\* variant of invalidOutput: the --output value is never rejected
invalidOutputNever(outputFormat) == FALSE

\* line 68: the --output value is rejected
invalidOutput(outputFormat) ==
    outputFormat # "" /\ ~IsValidInput(outputFormat, ValidOutputFormats)

---------------------------------------------------------------------------
(* Errors the collaborators can report *)

ErrInvalidOutput == "flagutil.InvalidValueError"
ErrInvalidSearch == "ValidateSearchInput error"
ErrConnection == "Connection error"
ErrAdapter == "NewNetHttpRequestAdapter error"
ErrGetKafkas == "Kafkas().Get error"
ErrClusterList == "GetClusterListWithSearchParams error"
ErrLoad == "ServiceContext.Load error"
ErrCurrentContext == "GetCurrentContext error"
ErrFormatted == "dump.Formatted error"

\* query parameters of a list-instances request; Nil = parameter not set
KafkaRequest(page, size, search) ==
    [page |-> page, size |-> size, search |-> search]

\* the request configuration given to Kafkas().Get at line 146 is nil:
\* the request that is executed carries no query parameter
executedKafkaRequest(built) == KafkaRequest(Nil, Nil, Nil)

Call(name, err) == [name |-> name, err |-> err]

Log(level, msg) == [level |-> level, msg |-> msg]

Table(rs) == [kind |-> "table", format |-> "", rows |-> rs, items |-> <<>>]

Formatted(format, items) ==
    [kind |-> "formatted", format |-> format, rows |-> <<>>, items |-> items]

---------------------------------------------------------------------------
(* The invocation *)

Init ==
    /\ opts \in [outputFormat : OutputFormats, page : 1..MaxPage,
                 limit : 1..MaxLimit, search : Searches]
    /\ pc = "RunE"
    /\ a = KafkaRequest(Nil, Nil, Nil)
    /\ adapterErr = NoErr
    /\ kafkas = <<>>
    /\ clusterIdMap = <<>>
    /\ currCtx = Nil
    /\ selected = Nil
    /\ rows = <<>>
    /\ calls = <<>>
    /\ kafkaReqs = <<>>
    /\ clusterReqs = <<>>
    /\ logs = <<>>
    /\ stdout = <<>>
    /\ rendered = <<>>
    /\ result = Running

\* `return err` (err may be nil)
Return(err) ==
    /\ pc' = "done"
    /\ result' = err

\* NewListCommand, RunE (lines 67-81) up to the call of runList
RunE ==
    /\ pc = "RunE"
    /\ IF invalidOutput(opts.outputFormat)
       THEN /\ Return(ErrInvalidOutput)
            /\ UNCHANGED calls
       ELSE \E err \in {NoErr, ErrInvalidSearch} :
               /\ calls' = Append(calls, Call("ValidateSearchInput", err))
               /\ IF err # NoErr
                  THEN Return(err)
                  ELSE pc' = "Connection" /\ UNCHANGED result
    /\ UNCHANGED <<opts, a, adapterErr, kafkas, clusterIdMap, currCtx, selected, rows,
                   kafkaReqs, clusterReqs, logs, stdout, rendered>>

\* runList, lines 113-116
Connection ==
    /\ pc = "Connection"
    /\ \E err \in {NoErr, ErrConnection} :
          /\ calls' = Append(calls, Call("Connection", err))
          /\ IF err # NoErr
             THEN Return(err)
             ELSE pc' = "BuildRequest" /\ UNCHANGED result
    /\ UNCHANGED <<opts, a, adapterErr, kafkas, clusterIdMap, currCtx, selected, rows,
                   kafkaReqs, clusterReqs, logs, stdout, rendered>>

\* runList, lines 118-128: the request value `a` is built
BuildRequest ==
    /\ pc = "BuildRequest"
    /\ IF opts.search # ""
       THEN /\ a' = KafkaRequest(Itoa(opts.page), Itoa(opts.limit),
                                 buildQuery(opts.search))
            /\ logs' = Append(logs, Log("debug", buildQuery(opts.search)))
       ELSE /\ a' = KafkaRequest(Itoa(opts.page), Itoa(opts.limit), Nil)
            /\ UNCHANGED logs
    /\ pc' = "NewAdapter"
    /\ UNCHANGED <<opts, adapterErr, kafkas, clusterIdMap, currCtx, selected, rows,
                   calls, kafkaReqs, clusterReqs, stdout, rendered, result>>

\* runList, lines 132-144: an error of the adapter constructor is printed
\* and execution goes on with the adapter it returned; building the client
\* on that adapter may panic
NewAdapter ==
    /\ pc = "NewAdapter"
    /\ \E err \in {NoErr, ErrAdapter} :
          /\ adapterErr' = err
          /\ calls' = Append(calls, Call("NewNetHttpRequestAdapter", err))
          /\ stdout' = stdout
                \o (IF err # NoErr
                    THEN <<"Error creating request adapter: " \o err>>
                    ELSE <<>>)
                \o <<"+++ Using Kiota client">>
          /\ \/ pc' = "GetKafkas" /\ UNCHANGED result
             \/ err # NoErr /\ Return(Panic)
    /\ UNCHANGED <<opts, a, kafkas, clusterIdMap, currCtx, selected, rows,
                   kafkaReqs, clusterReqs, logs, rendered>>

\* runList, lines 146-150: the list-instances call
GetKafkas ==
    /\ pc = "GetKafkas"
    /\ kafkaReqs' = Append(kafkaReqs, executedKafkaRequest(a))
    /\ \E err \in {NoErr, ErrGetKafkas} :
          /\ calls' = Append(calls, Call("GetKafkas", err))
          /\ IF err # NoErr
             THEN Return(err) /\ UNCHANGED kafkas
             ELSE /\ \E items \in SeqsUpTo(KafkaUniverse, MaxItems) :
                        kafkas' = items
                  /\ pc' = "CheckEmpty"
                  /\ UNCHANGED result
    /\ UNCHANGED <<opts, a, adapterErr, clusterIdMap, currCtx, selected, rows,
                   clusterReqs, logs, stdout, rendered>>

\* runList, lines 158-161
CheckEmpty ==
    /\ pc = "CheckEmpty"
    /\ IF noKafkaInstances(kafkas, opts.outputFormat)
       THEN /\ logs' = Append(logs,
                   Log("info", MustLocalize("kafka.common.log.info.noKafkaInstances")))
            /\ Return(NoErr)
       ELSE /\ pc' = "GetClusterIdMap"
            /\ UNCHANGED <<logs, result>>
    /\ UNCHANGED <<opts, a, adapterErr, kafkas, clusterIdMap, currCtx, selected, rows,
                   calls, kafkaReqs, clusterReqs, stdout, rendered>>

\* runList, lines 163-166, with getClusterIdMapFromKafkas (lines 228-256)
GetClusterIdMap ==
    /\ pc = "GetClusterIdMap"
    /\ LET ids == kafkaClusterIdsOf(kafkas) IN
       IF skipClusterLookup(ids)
       THEN /\ clusterIdMap' = <<>>
            /\ pc' = "Render"
            /\ UNCHANGED <<calls, clusterReqs, result>>
       ELSE \E order \in RangeOrders(ids) :
            \E err \in {NoErr, ErrClusterList} :
               /\ clusterReqs' = Append(clusterReqs,
                      [search |-> createSearchString(order),
                       page |-> DefaultPageNumber,
                       size |-> clusterLookupSize(ids)])
               /\ calls' = Append(calls,
                      Call("GetClusterListWithSearchParams", err))
               /\ IF err # NoErr
                  THEN Return(err) /\ UNCHANGED clusterIdMap
                  ELSE /\ \E slice \in SeqsUpTo(ClusterUniverse, MaxClusters) :
                             clusterIdMap' = idToClusterOf(slice)
                       /\ pc' = "Render"
                       /\ UNCHANGED result
    /\ UNCHANGED <<opts, a, adapterErr, kafkas, currCtx, selected, rows,
                   kafkaReqs, logs, stdout, rendered>>

\* runList, lines 169-187 and 191: the table path
RenderTable ==
    /\ pc = "Render"
    /\ opts.outputFormat = EmptyFormat
    /\ \E loadErr \in {NoErr, ErrLoad} :
          IF loadErr # NoErr
          THEN /\ calls' = Append(calls, Call("ServiceContext.Load", loadErr))
               /\ Return(loadErr)
               /\ UNCHANGED <<currCtx, selected, rows, logs, rendered>>
          ELSE \E ctxErr \in {NoErr, ErrCurrentContext} :
               /\ calls' = calls \o <<Call("ServiceContext.Load", NoErr),
                                      Call("GetCurrentContext", ctxErr)>>
               /\ IF ctxErr # NoErr
                  THEN /\ Return(ctxErr)
                       /\ UNCHANGED <<currCtx, selected, rows, logs, rendered>>
                  ELSE \E kafkaID \in KafkaIDs :
                       /\ currCtx' = kafkaID
                       /\ selected' = selectedIdOf(kafkaID)
                       /\ rows' = mapResponseItemsToRows(kafkas,
                                      selected', clusterIdMap)
                       /\ rendered' = Append(rendered, Table(rows'))
                       /\ logs' = Append(logs, Log("info", ""))
                       /\ Return(NoErr)
    /\ UNCHANGED <<opts, a, adapterErr, kafkas, clusterIdMap,
                   kafkaReqs, clusterReqs, stdout>>

\* runList, lines 188-189: the structured path
RenderFormatted ==
    /\ pc = "Render"
    /\ opts.outputFormat # EmptyFormat
    /\ \E err \in {NoErr, ErrFormatted} :
          /\ calls' = Append(calls, Call("dump.Formatted", err))
          /\ rendered' = IF err = NoErr
                         THEN Append(rendered,
                                     Formatted(opts.outputFormat, kafkas))
                         ELSE rendered
          /\ Return(err)
    /\ UNCHANGED <<opts, a, adapterErr, kafkas, clusterIdMap, currCtx, selected, rows,
                   kafkaReqs, clusterReqs, logs, stdout>>

Next ==
    \/ RunE
    \/ Connection
    \/ BuildRequest
    \/ NewAdapter
    \/ GetKafkas
    \/ CheckEmpty
    \/ GetClusterIdMap
    \/ RenderTable
    \/ RenderFormatted

Spec == Init /\ [][Next]_vars

---------------------------------------------------------------------------
(* mapResponseItemsToRows on its own, applied to any instance list, any    *)
(* selected id and any cluster index                                       *)

\* selected arguments
SelectedIds == {"k1", "k2", "k3", "-"}

\* cluster indexes: any map from cluster ids to clusters
ClusterIdMaps ==
    UNION {[ids -> ClusterUniverse] :
              ids \in SUBSET {c.id : c \in ClusterUniverse}}

InitRows ==
    /\ opts = [outputFormat |-> "", page |-> 1, limit |-> 1, search |-> ""]
    /\ pc = "mapResponseItemsToRows"
    /\ a = KafkaRequest(Nil, Nil, Nil)
    /\ adapterErr = NoErr
    /\ kafkas \in SeqsUpTo(KafkaUniverse, MaxItems)
    /\ clusterIdMap \in ClusterIdMaps
    /\ currCtx = Nil
    /\ selected \in SelectedIds
    /\ rows = <<>>
    /\ calls = <<>>
    /\ kafkaReqs = <<>>
    /\ clusterReqs = <<>>
    /\ logs = <<>>
    /\ stdout = <<>>
    /\ rendered = <<>>
    /\ result = Running

\* one call of mapResponseItemsToRows (lines 194-226)
MapRows ==
    /\ pc = "mapResponseItemsToRows"
    /\ rows' = mapResponseItemsToRows(kafkas, selected, clusterIdMap)
    /\ pc' = "mapped"
    /\ UNCHANGED <<opts, a, adapterErr, kafkas, clusterIdMap, currCtx,
                   selected, calls, kafkaReqs, clusterReqs, logs, stdout,
                   rendered, result>>

NextRows == MapRows

SpecRows == InitRows /\ [][NextRows]_vars

---------------------------------------------------------------------------
(* Properties *)

CallsNamed(name) == {i \in DOMAIN calls : calls[i].name = name}

\* the list-instances call has returned a page
Fetched == \E i \in DOMAIN calls : calls[i] = Call("GetKafkas", NoErr)

\* the cluster ids the fetched instances refer to
ReferencedClusterIds ==
    {c \in {kafkas[i].cluster_id : i \in DOMAIN kafkas} : c # Nil}

\* C1: every list-instances request that is executed carries the caller's
\* page number and page size, and the predicate buildQuery(search) when the
\* search term is non-empty, no predicate when it is empty.
C1_ExecutedRequestCarriesFlags ==
    \A i \in DOMAIN kafkaReqs :
        /\ kafkaReqs[i].page = Itoa(opts.page)
        /\ kafkaReqs[i].size = Itoa(opts.limit)
        /\ kafkaReqs[i].search =
              IF opts.search = "" THEN Nil ELSE buildQuery(opts.search)

C2_Clause(id) == "id = '" \o id \o "'"

RECURSIVE C2_JoinOr(_)
C2_JoinOr(ids) ==
    IF Len(ids) = 0 THEN ""
    ELSE IF Len(ids) = 1 THEN C2_Clause(ids[1])
    ELSE C2_JoinOr(SubSeq(ids, 1, Len(ids) - 1))
            \o " or " \o C2_Clause(ids[Len(ids)])

\* C2: the predicate of every cluster lookup request is the or-combination
\* of one equality clause per distinct non-absent cluster reference of the
\* fetched instances, each identifier once, and the request asks for the
\* first page with a page size equal to the number of those identifiers.
C2_LookupIdsDeduplicated ==
    \A i \in DOMAIN clusterReqs :
        /\ \E ids \in [1..Cardinality(ReferencedClusterIds)
                          -> ReferencedClusterIds] :
              /\ \A m, n \in DOMAIN ids : m # n => ids[m] # ids[n]
              /\ clusterReqs[i].search = C2_JoinOr(ids)
        /\ clusterReqs[i].page = 1
        /\ clusterReqs[i].size = Cardinality(ReferencedClusterIds)

\* two different instances of the page refer to the same cluster, another
\* to a second cluster, and the lookup has been requested
C2_Witness ==
    /\ Len(clusterReqs) = 1
    /\ \E i, j \in DOMAIN kafkas :
          /\ kafkas[i].id # kafkas[j].id
          /\ kafkas[i].cluster_id = kafkas[j].cluster_id
          /\ kafkas[i].cluster_id # Nil

\* C3: at most one cluster lookup request is issued in an invocation, and
\* when no fetched instance has a cluster reference none is issued and the
\* cluster index is empty.
C3_AtMostOneLookup ==
    /\ Len(clusterReqs) <= 1
    /\ Cardinality(CallsNamed("GetClusterListWithSearchParams")) <= 1
    /\ (\A i \in DOMAIN kafkas : kafkas[i].cluster_id = Nil)
          => /\ clusterReqs = <<>>
             /\ CallsNamed("GetClusterListWithSearchParams") = {}
             /\ DOMAIN clusterIdMap = {}

\* a non-empty page without any cluster reference has passed the resolver
C3_Witness ==
    /\ pc = "Render"
    /\ Len(kafkas) >= 1
    /\ \A i \in DOMAIN kafkas : kafkas[i].cluster_id = Nil
    /\ clusterReqs = <<>>

\* no collaborator has reported a failure so far
NoFailure == \A i \in DOMAIN calls : calls[i].err = NoErr

\* C4: whenever rows have been projected or output has been rendered, the
\* cluster index has an entry for every cluster id a fetched instance
\* refers to (a lookup response that omits one makes the command fail).
\* Stated for the invocations in which no collaborator reports a failure.
C4_IndexCoversReferences ==
    (NoFailure /\ (rows # <<>> \/ rendered # <<>>))
        => ReferencedClusterIds \subseteq DOMAIN clusterIdMap

\* C5: in a rendered table, row i carries the "current" marker if and only
\* if the session has an active selection (KafkaID not empty) and the
\* identifier of instance i equals it.  Stated for the invocations in which
\* no collaborator reports a failure.
C5_CurrentMarkerIffSelected ==
    \A t \in DOMAIN rendered :
        (NoFailure /\ rendered[t].kind = "table") =>
            \A i \in DOMAIN rendered[t].rows :
                rendered[t].rows[i].Name =
                    IF currCtx # "" /\ kafkas[i].id = currCtx
                    THEN kafkas[i].name \o " (current)"
                    ELSE kafkas[i].name

\* C6: mapResponseItemsToRows returns one row per instance, in the order of
\* the instances: as many rows as instances, row i having the identifier of
\* instance i, whatever the cluster index and the selected identifier.
C6_OneRowPerInstanceInOrder ==
    pc = "mapped" =>
        /\ Len(rows) = Len(kafkas)
        /\ \A i \in DOMAIN kafkas : rows[i].ID = kafkas[i].id

\* rows made of a page whose identifiers are not in sorted order
C6_Witness ==
    /\ pc = "mapped"
    /\ Len(kafkas) = 2
    /\ kafkas[1].id = "k2"
    /\ kafkas[2].id = "k1"
    /\ Len(rows) = 2

C7_HostedLabel == "[kafka.list.output.openshiftCluster.redhat]"

\* C7: a row has the hosted-by-the-service label if and only if its
\* instance has no cluster reference, whatever the cluster index holds; the
\* row of an instance with cluster reference c has the label
\* "<name> (<id>)" of the index entry keyed by c.
C7_ClusterLabel ==
    pc = "mapped" =>
        \A i \in DOMAIN rows :
            /\ rows[i].OpenshiftCluster = C7_HostedLabel
                  <=> kafkas[i].cluster_id = Nil
            /\ (kafkas[i].cluster_id # Nil
                  /\ kafkas[i].cluster_id \in DOMAIN clusterIdMap)
                  => rows[i].OpenshiftCluster =
                        clusterIdMap[kafkas[i].cluster_id].name \o " ("
                            \o clusterIdMap[kafkas[i].cluster_id].id \o ")"

\* rows of an instance without cluster and of an instance whose cluster is
\* in the index, made with a non-empty index
C7_Witness ==
    /\ pc = "mapped"
    /\ DOMAIN clusterIdMap # {}
    /\ \E i, j \in DOMAIN rows :
          /\ kafkas[i].cluster_id = Nil
          /\ kafkas[j].cluster_id \in DOMAIN clusterIdMap

C8_ShortCircuited ==
    \E i \in DOMAIN logs :
        logs[i] = Log("info", "[kafka.common.log.info.noKafkaInstances]")

C8_PastEmptyCheck == Fetched /\ pc \in {"GetClusterIdMap", "Render", "done"}

\* C8: the "no instances" short-circuit is taken if and only if the fetched
\* page is empty and the format is the table format; then one informational
\* message is logged, nothing is rendered, no cluster lookup and no session
\* load happen and the command succeeds.  An empty page with a structured
\* format is passed on to the structured renderer.
C8_NoInstancesShortCircuit ==
    /\ C8_ShortCircuited =>
          /\ Fetched /\ Len(kafkas) = 0 /\ opts.outputFormat = ""
          /\ Cardinality({i \in DOMAIN logs : logs[i].level = "info"}) = 1
          /\ rendered = <<>>
          /\ clusterReqs = <<>>
          /\ CallsNamed("GetClusterListWithSearchParams") = {}
          /\ CallsNamed("ServiceContext.Load") = {}
          /\ pc = "done" /\ result = NoErr
    /\ (C8_PastEmptyCheck /\ Len(kafkas) = 0 /\ opts.outputFormat = "")
          => C8_ShortCircuited
    /\ (C8_PastEmptyCheck /\ Len(kafkas) = 0 /\ opts.outputFormat # ""
            /\ pc = "done")
          => /\ ~C8_ShortCircuited
             /\ CallsNamed("dump.Formatted") # {}
             /\ result = NoErr
                   => rendered = <<Formatted(opts.outputFormat, <<>>)>>

\* the short-circuit has been taken
C8_Witness == pc = "done" /\ C8_ShortCircuited

\* C9: a failure reported by any collaborator is the last call of the
\* invocation: the command returns that error unchanged, and nothing has
\* been rendered.
C9_FailuresPropagate ==
    \A i \in DOMAIN calls :
        calls[i].err # NoErr =>
            /\ i = Len(calls)
            /\ pc = "done"
            /\ result = calls[i].err
            /\ rendered = <<>>

C10_ResolvedBefore(i) ==
    /\ \E j \in 1..(i - 1) : calls[j] = Call("GetKafkas", NoErr)
    /\ \A j \in CallsNamed("GetClusterListWithSearchParams") :
          j < i /\ calls[j].err = NoErr
    /\ ReferencedClusterIds # {}
          => CallsNamed("GetClusterListWithSearchParams") # {}

\* C10: an invalid output format or a rejected search term ends the command
\* before a connection is acquired or a request is made; the cluster lookup
\* comes after the list-instances call has returned successfully; the
\* session load and the rendering come after the cluster resolution has
\* returned successfully.
C10_StepsOrdered ==
    /\ (opts.outputFormat \notin {"", "json", "yaml", "yml"}
            \/ \E i \in DOMAIN calls :
                  calls[i] = Call("ValidateSearchInput", ErrInvalidSearch))
          => /\ CallsNamed("Connection") = {}
             /\ kafkaReqs = <<>> /\ clusterReqs = <<>> /\ rendered = <<>>
             /\ pc \in {"RunE", "done"}
    /\ Len(kafkaReqs) = Cardinality(CallsNamed("GetKafkas"))
    /\ Len(clusterReqs)
          = Cardinality(CallsNamed("GetClusterListWithSearchParams"))
    /\ \A i \in CallsNamed("GetClusterListWithSearchParams") :
          \E j \in 1..(i - 1) : calls[j] = Call("GetKafkas", NoErr)
    /\ \A i \in CallsNamed("ServiceContext.Load")
                   \cup CallsNamed("dump.Formatted") :
          C10_ResolvedBefore(i)
    /\ rendered # <<>> => C10_ResolvedBefore(Len(calls) + 1)

\* a table has been rendered after both network calls
C10_Witness ==
    /\ pc = "done"
    /\ Len(kafkaReqs) = 1
    /\ Len(clusterReqs) = 1
    /\ Len(rendered) = 1
    /\ rendered[1].kind = "table"

====
